---- MODULE Spec2Model ----
(***************************************************************************)
(* State machine of one SeatBooking Durable Object (src/index.ts): the SQL *)
(* seat table, the accepted WebSockets, and the POST /book-seat requests   *)
(* that are suspended at `await request.json()` (Spec); and the Worker's   *)
(* fetch() in front of the objects of several flights (WorkerSpec).        *)
(***************************************************************************)
EXTENDS FiniteSets, Integers, Sequences, TLC

\* ---------------------------------------------------------------- bounds
\* Most POST /book-seat requests suspended at `await request.json()` at once.
MaxInFlight == 2
\* Most WebSockets ever accepted by the object.
MaxSockets == 2

\* ------------------------------------------------------ program constants
\* for (let row = 1; row <= 10; row++)
NumRows == 10
\* for (let col = 0; col < 6; col++)
NumCols == 6
\* String.fromCharCode(65 + col)
CharCodeA == 65

\* SQL NULL; a JSON null or a missing field (undefined) is bound as NULL.
NULL == "NULL"

\* Occupant names the request bodies carry (a missing or null name is NULL).
ReqNames == {"Alice", "Bob", NULL}
\* Seat numbers the request bodies carry: three seeded seats, one seat that
\* is not in the layout, and a missing or null seatNumber.
ReqSeats == {"1A", "1B", "10F", "9Z", NULL}

\* The parsed body of a POST /book-seat request; parses = FALSE is a body
\* on which request.json() rejects.
Bodies ==
  [parses : {TRUE}, seatNumber : ReqSeats, name : ReqNames]
    \cup {[parses |-> FALSE, seatNumber |-> NULL, name |-> NULL]}

NoBody == [parses |-> FALSE, seatNumber |-> NULL, name |-> NULL]

\* Requests the object's fetch() receives.
Requests == [method : {"GET", "POST"}, path : {"/seats", "/book-seat", "/other"},
             upgrade : BOOLEAN]

\* request.method === 'GET' && url.pathname === '/seats'
IsGetSeats(req) == req.method = "GET" /\ req.path = "/seats"

\* request.method === 'POST' && url.pathname === '/book-seat'
IsBookSeat(req) == req.method = "POST" /\ req.path = "/book-seat"

\* A request that no branch of fetch() answers.
IsOther(req) == ~IsGetSeats(req) /\ ~IsBookSeat(req) /\ ~req.upgrade

VARIABLES
  sql,        \* this.sql: [tables: the names PRAGMA table_list lists,
              \*            seats: occupant by seatId (the primary key) of table seats,
              \*            rowids: the seatIds in the order of insertion]
  sockets,    \* this.ctx.getWebSockets(): ids of the accepted sockets, in order
  wsState,    \* per socket id: "none" | "open" | "broken" | "closed"
  pending,    \* number of /book-seat requests suspended at `await request.json()`
  handled,    \* what ran in the last step: "constructor" | "fetch" | "bookSeat" | "none"
  booking,    \* the body of the booking the last step answered, NoBody if it answered none
  response,   \* the Response the last step returned, NoResponse if it returned none
  pushed,     \* per socket id: the payloads ws.send() delivered in the last step
  calls,      \* number of broadcastSeats() calls made in the last step
  vacated,    \* the seats whose occupant the last step set from a name to null
  race,       \* the bookings of one seat that were suspended together, and their outcomes
  objects,    \* env.SEAT_BOOKING: per object id, the SeatBooking object of that id
              \*   [live, sql, sockets, pending], as the Worker's fetch() reaches them
  links,      \* per socket id of the Worker's clients: [state, flight] of the connection,
              \*   flight being the flight whose object holds the socket
  routed      \* the last step of the Worker: its request, the object reached, the answer

vars == <<sql, sockets, wsState, pending, handled, booking, response, pushed, calls, vacated, race,
          objects, links, routed>>

\* The state of the one SeatBooking object that Spec follows step by step.
inner == <<sql, sockets, wsState, pending, handled, booking, response, pushed, calls, vacated, race>>

\* The state behind the Worker's fetch(): every SeatBooking object of the
\* namespace, which WorkerSpec follows.
outer == <<objects, links, routed>>

SocketIds == 1..MaxSockets

\* ------------------------------------------------------------- responses
\* new Response('Seat not available', { status: 400 }) of the `!result` branch
SeatNotFound == [status |-> 400, body |-> "Seat not available"]
\* new Response('Seat not available', { status: 400 }) of the occupied branch
SeatAlreadyOccupied == [status |-> 400, body |-> "Seat not available"]
\* new Response(`Seat ${seatId} booked successfully`)
Booked(seatId) == [status |-> 200, body |-> "Seat " \o seatId \o " booked successfully"]
\* Mutant: the fall-through Response carries the status of a rejected booking.
NotFoundAs400 == [status |-> 400, body |-> "Not found"]
\* new Response('Not found', { status: 404 })
NotFound == [status |-> 404, body |-> "Not found"]
\* new Response(null, { status: 101, webSocket: client })
Switching == [status |-> 101, body |-> NULL]
\* An exception that escapes fetch() or the constructor: the caller gets an
\* error from the runtime instead of a Response of the object.
Thrown == [status |-> 500, body |-> "exception"]
\* The constructor returned normally.
Constructed == [status |-> 0, body |-> "constructed"]
\* The step returned nothing to a caller.
NoResponse == [status |-> 0, body |-> NULL]

\* ------------------------------------------------------------------ JSON
\* JSON.stringify(v) of an array v: the text of v, which is not v itself.
\* `quoted` counts how many times the text was stringified again.
Stringify(v) == [json |-> v, quoted |-> 0]

\* JSON.stringify(text) of a string: the text as a quoted JSON string
\* literal, which a client has to parse once more to get the text back.
StringifyString(text) == [text EXCEPT !.quoted = @ + 1]

\* ------------------------------------------------------------------- SQL
EmptyDb == [tables |-> <<"sqlite_schema">>, seats |-> <<>>, rowids |-> <<>>]

\* PRAGMA table_list: one row per table, the tables of the schema newest first.
TableList(db) == [i \in 1..Len(db.tables) |-> [name |-> db.tables[i]]]

\* CREATE TABLE IF NOT EXISTS seats (seatId TEXT PRIMARY KEY, occupant TEXT)
CreateTable(db) ==
  IF \E i \in 1..Len(db.tables) : db.tables[i] = "seats"
    THEN db
    ELSE [db EXCEPT !.tables = <<"seats">> \o @]

HasSeat(db, seatId) == seatId \in DOMAIN db.seats

\* INSERT INTO seats VALUES (?, null): fails on a seatId that is already a key.
InsertSeat(db, seatNumber) ==
  IF HasSeat(db, seatNumber)
    THEN [db |-> db, threw |-> TRUE]
    ELSE [db |-> [db EXCEPT !.seats = (seatNumber :> NULL) @@ @,
                            !.rowids = Append(@, seatNumber)],
          threw |-> FALSE]

\* String.fromCharCode(code) for the codes of A..F
FromCharCode(code) == <<"A", "B", "C", "D", "E", "F">>[code - CharCodeA + 1]

\* `${row}${String.fromCharCode(65 + col)}`
SeatNumber(row, col) == ToString(row) \o FromCharCode(CharCodeA + col)

\* The two nested loops of initializeSeats, k counting the iterations done.
RECURSIVE Seed(_, _)
Seed(db, k) ==
  IF k = NumRows * NumCols
    THEN [db |-> db, threw |-> FALSE]
    ELSE LET ins == InsertSeat(db, SeatNumber((k \div NumCols) + 1, k % NumCols))
         IN  IF ins.threw THEN ins ELSE Seed(ins.db, k + 1)

\* Mutant: the existence check never finds the table, so every start reseeds.
TableNeverFound(db) == FALSE

\* if ([...cursor][0].name === 'seats')
TableExists(db) == TableList(db)[1].name = "seats"

\* Mutant: every start drops the table and seeds it again.
InitializeSeatsFresh(db) == Seed(CreateTable(EmptyDb), 0)

\* initializeSeats()
InitializeSeats(db) ==
  IF TableExists(db)
    THEN [db |-> db, threw |-> FALSE]
    ELSE Seed(CreateTable(db), 0)

\* SELECT occupant FROM seats WHERE seatId = ?   (seatId = NULL matches no row)
SelectOccupant(db, seatId) ==
  IF seatId # NULL /\ HasSeat(db, seatId)
    THEN <<[occupant |-> db.seats[seatId]]>>
    ELSE <<>>

\* Mutant: the occupant's earlier seat is not released.
ClearNothing(db, occupant) == db

\* Mutant: the comparison of the WHERE clause is inverted (occupant != ?), so
\* the seats of the other occupants are emptied.
ClearOthers(db, occupant) ==
  [db EXCEPT !.seats =
     [s \in DOMAIN @ |->
        IF occupant # NULL /\ @[s] # NULL /\ @[s] # occupant THEN NULL ELSE @[s]]]

\* Mutant: the occupant's earlier rows are deleted (DELETE FROM seats WHERE
\* occupant = ?) instead of being emptied.
DeleteOccupant(db, occupant) ==
  LET kept == {s \in DOMAIN db.seats : occupant = NULL \/ db.seats[s] # occupant}
  IN  [db EXCEPT !.seats = [s \in kept |-> @[s]],
                 !.rowids = SelectSeq(@, LAMBDA s : s \in kept)]

\* UPDATE seats SET occupant = null WHERE occupant = ?   (occupant = NULL matches no row)
ClearOccupant(db, occupant) ==
  [db EXCEPT !.seats =
     [s \in DOMAIN @ |-> IF occupant # NULL /\ @[s] = occupant THEN NULL ELSE @[s]]]

\* UPDATE seats SET occupant = ? WHERE seatId = ?
SetOccupant(db, occupant, seatId) ==
  IF seatId # NULL /\ HasSeat(db, seatId)
    THEN [db EXCEPT !.seats[seatId] = occupant]
    ELSE db

\* getSeats(): SELECT seatId, occupant FROM seats (the rows in rowid order),
\* each row pushed as { seatNumber, occupant }, the array stringified.
GetSeats(db) ==
  Stringify([i \in 1..Len(db.rowids) |->
               [seatNumber |-> db.rowids[i], occupant |-> db.seats[db.rowids[i]]]])

\* -------------------------------------------------------------- broadcast
NoPush == [w \in SocketIds |-> <<>>]

\* ws.send(payload) on an accepted socket whose peer is gone ("broken") is
\* either dropped or throws; `thrower` is the socket on which it throws, 0
\* if it throws on none. forEach stops at the throw, which escapes
\* broadcastSeats.
RECURSIVE ForEachSend(_, _, _, _, _, _)
ForEachSend(db, socks, st, thrower, i, acc) ==
  IF i > Len(socks)
    THEN [pushed |-> acc, threw |-> FALSE]
    ELSE LET ws == socks[i]
         IN  IF ws = thrower
               THEN [pushed |-> acc, threw |-> TRUE]
               ELSE ForEachSend(db, socks, st, thrower, i + 1,
                                IF st[ws] = "open"
                                  THEN [acc EXCEPT ![ws] = Append(@, GetSeats(db))]
                                  ELSE acc)

\* Mutant: the loop over getWebSockets() skips the first socket.
BroadcastFromSecond(db, socks, st, thrower) ==
  ForEachSend(db, socks, st, thrower, 2, NoPush)

\* this.ctx.getWebSockets().forEach((ws) => ws.send(this.getSeats()))
BroadcastSeats(db, socks, st, thrower) ==
  ForEachSend(db, socks, st, thrower, 1, NoPush)

\* ------------------------------------------------------------ assignSeat
\* Mutant: the occupied check is missing.
NeverOccupied(result) == FALSE

\* result.occupant !== null
Occupied(result) == result.occupant # NULL

Unchanged(db, resp) == [db |-> db, response |-> resp, pushed |-> NoPush, calls |-> 0]

\* Mutant: the occupant's earlier seat is released before the seat is looked
\* up, so a rejected booking releases it too.
AssignSeatClearFirst(db, seatId, occupant, socks, st, thrower) ==
  LET cleared == ClearOccupant(db, occupant)
      cursor == SelectOccupant(cleared, seatId)
  IN  IF cursor = <<>>
        THEN Unchanged(cleared, SeatNotFound)
      ELSE IF Occupied(cursor[1])
        THEN Unchanged(cleared, SeatAlreadyOccupied)
      ELSE LET written == SetOccupant(cleared, occupant, seatId)
               sent    == BroadcastSeats(written, socks, st, thrower)
           IN  [db |-> written,
                response |-> IF sent.threw THEN Thrown ELSE Booked(seatId),
                pushed |-> sent.pushed,
                calls |-> 1]

\* Mutant: the broadcast is made before the seat is written.
AssignSeatBroadcastFirst(db, seatId, occupant, socks, st, thrower) ==
  LET cursor == SelectOccupant(db, seatId)
  IN  IF cursor = <<>>
        THEN Unchanged(db, SeatNotFound)
      ELSE IF Occupied(cursor[1])
        THEN Unchanged(db, SeatAlreadyOccupied)
      ELSE LET cleared == ClearOccupant(db, occupant)
               sent    == BroadcastSeats(cleared, socks, st, thrower)
               written == SetOccupant(cleared, occupant, seatId)
           IN  [db |-> written,
                response |-> IF sent.threw THEN Thrown ELSE Booked(seatId),
                pushed |-> sent.pushed,
                calls |-> 1]

\* assignSeat(seatId, occupant)
AssignSeat(db, seatId, occupant, socks, st, thrower) ==
  LET cursor == SelectOccupant(db, seatId)
  IN  IF cursor = <<>>
        THEN Unchanged(db, SeatNotFound)
      ELSE IF Occupied(cursor[1])
        THEN Unchanged(db, SeatAlreadyOccupied)
      ELSE LET cleared == ClearOccupant(db, occupant)
               written == SetOccupant(cleared, occupant, seatId)
               sent    == BroadcastSeats(written, socks, st, thrower)
           IN  [db |-> written,
                response |-> IF sent.threw THEN Thrown ELSE Booked(seatId),
                pushed |-> sent.pushed,
                calls |-> 1]

\* ------------------------------------------------------------------ state
Occupant(db, seatId) ==
  LET cursor == SelectOccupant(db, seatId)
  IN  IF cursor = <<>> THEN NULL ELSE cursor[1].occupant

SeatIds(db) == DOMAIN db.seats

NoRace == [seat |-> NULL, size |-> 0, left |-> 0, won |-> {}, lost |-> {}, failed |-> {}]

\* ---------------------------------------------------------------- Worker
\* The flights whose requests reach the Worker.
FlightIds == {"F", "G"}

\* url.searchParams.get('flightId'): NULL when the parameter is absent, the
\* empty string when it has no value.
FlightParams == FlightIds \cup {"", NULL}

\* Mutant: only an absent parameter counts as missing (flightId === null).
MissingOnlyAbsent(flightId) == flightId = NULL

\* !flightId
Missing(flightId) == flightId \in {NULL, ""}

\* Mutant: every flight is given the id of one and the same object.
IdFromConstant(flightId) == "id:"

\* env.SEAT_BOOKING.idFromName(flightId): an id that is a function of the name.
IdFromName(flightId) == "id:" \o flightId

\* The ids idFromName can return for a parameter that was given.
ObjectIds == {IdFromName(flightId) : flightId \in FlightParams \ {NULL}}

\* new Response('Flight ID not found', { status: 404 })
FlightNotFound == [status |-> 404, body |-> "Flight ID not found"]

\* An object that no stub.fetch() has reached yet: not constructed, no storage.
NoObject == [live |-> FALSE, sql |-> EmptyDb, sockets |-> <<>>, pending |-> 0]

\* A socket id that no WebSocketPair has used yet.
NoLink == [state |-> "none", flight |-> NULL]

NoRequest == [method |-> NULL, path |-> NULL, upgrade |-> FALSE]

\* The Worker has handled nothing yet.
NotRouted ==
  [step |-> "none", flightId |-> NULL, request |-> NoRequest, target |-> NULL,
   forwarded |-> NoRequest, response |-> NoResponse, pushed |-> NoPush]

Init ==
  /\ objects = [id \in ObjectIds |-> NoObject]
  /\ links = [w \in SocketIds |-> NoLink]
  /\ routed = NotRouted
  /\ sql = InitializeSeats(EmptyDb).db
  /\ sockets = <<>>
  /\ wsState = [w \in SocketIds |-> "none"]
  /\ pending = 0
  /\ handled = "constructor"
  /\ booking = NoBody
  /\ response = Constructed
  /\ pushed = NoPush
  /\ calls = 0
  /\ vacated = {}
  /\ race = NoRace

\* ---------------------------------------------------------------- races
\* A race is a set of bookings of one seeded, empty seat by different names
\* that were all suspended at `await request.json()` at the same time: `size`
\* of them, `left` still suspended, the others answered with 200 (won), 400
\* (lost) or an exception (failed). A request has no identity before its body
\* is read, so the requests answered next are taken to be those of the race.
Outcome(rc, body, resp) ==
  [rc EXCEPT !.left = @ - 1,
             !.won = IF resp.status = 200 THEN @ \cup {body.name} ELSE @,
             !.lost = IF resp.status = 400 THEN @ \cup {body.name} ELSE @,
             !.failed = IF resp.status \notin {200, 400} THEN @ \cup {body.name} ELSE @]

\* The race after the booking `body` was answered with resp.
Answer(rc, body, resp) ==
  IF rc.left = 0
    THEN IF /\ pending >= 2
            /\ body.parses
            /\ body.name # NULL
            /\ SelectOccupant(sql, body.seatNumber) = <<[occupant |-> NULL]>>
           THEN Outcome([NoRace EXCEPT !.seat = body.seatNumber, !.size = pending,
                                       !.left = pending],
                        body, resp)
           ELSE NoRace
  ELSE IF /\ body.parses
          /\ body.seatNumber = rc.seat
          /\ body.name \notin {NULL} \cup rc.won \cup rc.lost \cup rc.failed
         THEN Outcome(rc, body, resp)
         ELSE NoRace

\* A race all of whose bookings are answered is forgotten at the next step.
Forget(rc) == IF rc.left = 0 THEN NoRace ELSE rc

\* ---------------------------------------------------------------- actions
\* A step that answers no request leaves no response, push or broadcast.
Quiet ==
  /\ handled' = "none"
  /\ booking' = NoBody
  /\ response' = NoResponse
  /\ pushed' = NoPush
  /\ calls' = 0
  /\ vacated' = {}

\* The seats that hold a name in db and null in after.
Vacated(db, after) ==
  IF after = db
    THEN {}
    ELSE {s \in SeatIds(db) : db.seats[s] # NULL /\ HasSeat(after, s) /\ after.seats[s] = NULL}

\* fetch(), POST /book-seat, up to `await request.json()`: the request is
\* suspended and other events of the object may run. The object sees the body
\* only when the await resolves, so the body is chosen there.
ReceiveBooking ==
  /\ pending < MaxInFlight
  /\ pending' = pending + 1
  /\ race' = Forget(race)
  /\ Quiet
  /\ UNCHANGED <<sql, sockets, wsState>>
  /\ UNCHANGED outer

\* The sockets of getWebSockets() whose peer is gone.
Broken == {sockets[i] : i \in {j \in 1..Len(sockets) : wsState[sockets[j]] = "broken"}}

\* fetch(), POST /book-seat, from the resumption after `await request.json()`
\* to the return: the destructuring and assignSeat(seatNumber, name).
BookSeat(body, thrower) ==
  /\ pending > 0
  /\ pending' = pending - 1
  /\ handled' = "bookSeat"
  /\ booking' = body
  /\ IF body.parses
       THEN \E done \in {AssignSeat(sql, body.seatNumber, body.name, sockets, wsState, thrower)} :
                /\ done.calls = 0 => thrower = 0    \* no send, no choice of a throwing one
                /\ sql' = done.db
                /\ response' = done.response
                /\ pushed' = done.pushed
                /\ calls' = done.calls
                /\ vacated' = Vacated(sql, done.db)
                /\ race' = Answer(race, body, done.response)
       ELSE /\ thrower = 0
            /\ response' = Thrown
            /\ pushed' = NoPush
            /\ calls' = 0
            /\ vacated' = {}
            /\ race' = Answer(race, body, Thrown)
            /\ UNCHANGED sql
  /\ UNCHANGED <<sockets, wsState>>
  /\ UNCHANGED outer

\* handleWebSocket(): a new WebSocketPair whose server end is accepted.
HandleWebSocket(ws) ==
  /\ wsState[ws] = "none"
  /\ \A w \in SocketIds : w < ws => wsState[w] # "none"
  /\ sockets' = Append(sockets, ws)
  /\ wsState' = [wsState EXCEPT ![ws] = "open"]
  /\ response' = Switching

\* fetch() for every request that is not POST /book-seat; it has no await.
Fetch(req) ==
  /\ ~(req.method = "POST" /\ req.path = "/book-seat")
  /\ handled' = "fetch"
  /\ booking' = NoBody
  /\ pushed' = NoPush
  /\ calls' = 0
  /\ vacated' = {}
  /\ race' = Forget(race)
  /\ IF req.method = "GET" /\ req.path = "/seats"
       THEN /\ response' = [status |-> 200, body |-> StringifyString(GetSeats(sql))]
            /\ UNCHANGED <<sockets, wsState>>
     ELSE IF req.upgrade
       THEN \E ws \in SocketIds : HandleWebSocket(ws)
     ELSE /\ response' = NotFound
          /\ UNCHANGED <<sockets, wsState>>
  /\ UNCHANGED <<sql, pending>>
  /\ UNCHANGED outer

\* The peer of an accepted socket goes away; the runtime has not yet seen
\* the connection close, so getWebSockets() still returns the socket.
PeerGone(ws) ==
  /\ wsState[ws] = "open"
  /\ wsState' = [wsState EXCEPT ![ws] = "broken"]
  /\ race' = Forget(race)
  /\ Quiet
  /\ UNCHANGED <<sql, sockets, pending>>
  /\ UNCHANGED outer

\* Mutant: a closed socket stays in getWebSockets().
SocketClosedKept(ws) ==
  /\ wsState[ws] \in {"open", "broken"}
  /\ wsState' = [wsState EXCEPT ![ws] = "closed"]
  /\ race' = Forget(race)
  /\ Quiet
  /\ UNCHANGED <<sql, sockets, pending>>
  /\ UNCHANGED outer

\* The runtime sees the connection closed and drops the socket from
\* getWebSockets(); the object has no close handler.
SocketClosed(ws) ==
  /\ wsState[ws] \in {"open", "broken"}
  /\ wsState' = [wsState EXCEPT ![ws] = "closed"]
  /\ sockets' = SelectSeq(sockets, LAMBDA w : w # ws)
  /\ race' = Forget(race)
  /\ Quiet
  /\ UNCHANGED <<sql, pending>>
  /\ UNCHANGED outer

\* The object is evicted while idle and constructed again on the same
\* storage: constructor() -> initializeSeats(). Accepted sockets survive.
Restart ==
  /\ pending = 0
  /\ LET init == InitializeSeats(sql)
     IN  /\ sql' = init.db
         /\ response' = IF init.threw THEN Thrown ELSE Constructed
         /\ vacated' = Vacated(sql, init.db)
  /\ handled' = "constructor"
  /\ booking' = NoBody
  /\ pushed' = NoPush
  /\ calls' = 0
  /\ race' = Forget(race)
  /\ UNCHANGED <<sockets, wsState, pending>>
  /\ UNCHANGED outer

Next ==
  \/ ReceiveBooking
  \/ \E body \in Bodies : \E thrower \in Broken \cup {0} : BookSeat(body, thrower)
  \/ \E req \in Requests : Fetch(req)
  \/ \E ws \in SocketIds : PeerGone(ws)
  \/ \E ws \in SocketIds : SocketClosed(ws)
  \/ Restart

Spec == Init /\ [][Next]_vars

TypeOK ==
  /\ sql.tables \in {<<"sqlite_schema">>, <<"seats", "sqlite_schema">>}
  /\ \A s \in SeatIds(sql) : sql.seats[s] \in ReqNames
  /\ Len(sql.rowids) = Cardinality(SeatIds(sql))
  /\ pending \in 0..MaxInFlight
  /\ race.left <= pending
  /\ \A w \in SocketIds : wsState[w] \in {"none", "open", "broken", "closed"}
  /\ calls \in {0, 1}

\* ------------------------------------------------- Worker and its objects
\* The requests sent through the Worker, one for each branch of the object's
\* fetch().
WorkerRequests ==
  {req \in Requests : \/ IsGetSeats(req) /\ ~req.upgrade
                      \/ IsBookSeat(req) /\ ~req.upgrade
                      \/ req.method = "GET" /\ req.path = "/other"}

\* The bodies of the bookings sent through the Worker.
FlightBodies ==
  {body \in Bodies : body.seatNumber \in {"1A", "1B"} /\ body.name = "Alice"} \cup {NoBody}

\* The seat table after the constructor ran on the empty storage of a new object.
Seeded == InitializeSeats(EmptyDb).db

\* env.SEAT_BOOKING.get(id) and stub.fetch(): an object that is not live is
\* constructed (constructor -> initializeSeats) before its fetch() runs.
Started(obj) ==
  IF obj.live THEN obj ELSE [obj EXCEPT !.live = TRUE, !.sql = Seeded]

\* The state of every connection, as the sends of an object see it.
LinkState == [w \in SocketIds |-> links[w].state]

\* The number of bookings suspended at `await request.json()` in the objects.
RECURSIVE Suspended(_, _)
Suspended(objs, ids) ==
  IF ids = {} THEN 0
  ELSE LET id == CHOOSE i \in ids : TRUE
       IN  objs[id].pending + Suspended(objs, ids \ {id})

\* The sockets of an object's getWebSockets().
SocketsOf(obj) == {obj.sockets[i] : i \in 1..Len(obj.sockets)}

\* What the Worker returns for a request it forwarded: the Response of the
\* object's fetch().
Routed(flightId, req, id, resp) ==
  [step |-> "fetch", flightId |-> flightId, request |-> req, target |-> id,
   forwarded |-> req, response |-> resp, pushed |-> NoPush]

\* stub.fetch(request) on the object `id`, whose state before the call is
\* obj: SeatBooking.fetch(), for POST /book-seat up to `await request.json()`.
StubFetch(flightId, req, id, obj) ==
  IF IsGetSeats(req)
    THEN /\ objects' = [objects EXCEPT ![id] = obj]
         /\ routed' = Routed(flightId, req, id,
                             [status |-> 200, body |-> StringifyString(GetSeats(obj.sql))])
         /\ UNCHANGED links
  ELSE IF IsBookSeat(req)
    THEN /\ Suspended(objects, ObjectIds) < MaxInFlight
         /\ objects' = [objects EXCEPT ![id] = [obj EXCEPT !.pending = @ + 1]]
         /\ routed' = Routed(flightId, req, id, NoResponse)
         /\ UNCHANGED links
  ELSE IF req.upgrade
    THEN \E ws \in SocketIds :
           /\ links[ws].state = "none"
           /\ \A w \in SocketIds : w < ws => links[w].state # "none"
           /\ objects' = [objects EXCEPT ![id] = [obj EXCEPT !.sockets = Append(@, ws)]]
           /\ links' = [links EXCEPT ![ws] = [state |-> "open", flight |-> flightId]]
           /\ routed' = Routed(flightId, req, id, Switching)
  ELSE /\ objects' = [objects EXCEPT ![id] = obj]
       /\ routed' = Routed(flightId, req, id, NotFound)
       /\ UNCHANGED links

\* export default { fetch(request, env, ctx) }
WorkerFetch(flightId, req) ==
  /\ IF Missing(flightId)
       THEN /\ routed' = [step |-> "fetch", flightId |-> flightId, request |-> req,
                          target |-> NULL, forwarded |-> NoRequest,
                          response |-> FlightNotFound, pushed |-> NoPush]
            /\ UNCHANGED <<objects, links>>
       ELSE \E id \in {IdFromName(flightId)} :
              \E obj \in {Started(objects[id])} : StubFetch(flightId, req, id, obj)
  /\ UNCHANGED inner

\* A booking forwarded for flightId resumes after `await request.json()` in
\* its object: the destructuring and assignSeat(seatNumber, name). `thrower`
\* is a socket of the object whose peer is gone when the broadcast reaches
\* it, 0 if there is none; what becomes of such a socket is followed in Spec.
WorkerBookSeat(flightId, body, thrower) ==
  /\ \E id \in {IdFromName(flightId)} :
       /\ objects[id].live
       /\ objects[id].pending > 0
       /\ thrower \in SocketsOf(objects[id]) \cup {0}
       /\ IF body.parses
            THEN \E done \in {AssignSeat(objects[id].sql, body.seatNumber, body.name,
                                         objects[id].sockets, LinkState, thrower)} :
                   /\ done.calls = 0 => thrower = 0
                   /\ objects' = [objects EXCEPT ![id].sql = done.db, ![id].pending = @ - 1]
                   /\ routed' = [step |-> "bookSeat", flightId |-> flightId,
                                 request |-> NoRequest, target |-> id,
                                 forwarded |-> NoRequest, response |-> done.response,
                                 pushed |-> done.pushed]
            ELSE /\ thrower = 0
                 /\ objects' = [objects EXCEPT ![id].pending = @ - 1]
                 /\ routed' = [step |-> "bookSeat", flightId |-> flightId,
                               request |-> NoRequest, target |-> id,
                               forwarded |-> NoRequest, response |-> Thrown,
                               pushed |-> NoPush]
  /\ UNCHANGED links
  /\ UNCHANGED inner

\* The runtime of the object that accepted the socket sees the connection
\* closed and drops the socket from that object's getWebSockets().
LinkClosed(ws) ==
  /\ links[ws].state = "open"
  /\ links' = [links EXCEPT ![ws] = [state |-> "closed", flight |-> NULL]]
  /\ \E id \in {IdFromName(links[ws].flight)} :
       /\ objects' = [objects EXCEPT ![id].sockets = SelectSeq(@, LAMBDA w : w # ws)]
       /\ routed' = [NotRouted EXCEPT !.step = "closed", !.flightId = links[ws].flight,
                                      !.target = id]
  /\ UNCHANGED inner

WorkerNext ==
  \/ \E flightId \in FlightParams : \E req \in WorkerRequests : WorkerFetch(flightId, req)
  \/ \E flightId \in FlightIds : \E body \in FlightBodies :
       \E thrower \in SocketIds \cup {0} : WorkerBookSeat(flightId, body, thrower)
  \/ \E ws \in SocketIds : LinkClosed(ws)

WorkerSpec == Init /\ [][WorkerNext]_vars

\* ----------------------------------------------------------------- claims
OccupiedSeats(db) == {s \in SeatIds(db) : db.seats[s] # NULL}

Occupants(db) == {db.seats[s] : s \in OccupiedSeats(db)}

OpenSockets == {w \in SocketIds : wsState[w] = "open"}

\* C1: in every reachable state no two distinct seats hold the same
\* non-empty occupant.
OccupantUnique ==
  \A s, t \in OccupiedSeats(sql) : s # t => sql.seats[s] # sql.seats[t]

\* Two occupants are seated, one of them just moved from another seat.
OccupantUniqueWitness ==
  /\ handled = "bookSeat"
  /\ response.status = 200
  /\ vacated # {}
  /\ Cardinality(OccupiedSeats(sql)) = 2

\* C2: of the bookings of one empty seat by different occupants that are
\* suspended together, exactly one returns success and every other one is
\* answered 400; the seat ends up with the occupant of the successful one.
RaceHasOneWinner ==
  race.size >= 2 =>
    /\ race.failed = {}
    /\ Cardinality(race.won) <= 1
    /\ race.lost # {} => race.won # {}
    /\ race.left = 0 => /\ Cardinality(race.won) = 1
                        /\ Occupant(sql, race.seat) \in race.won

\* C3: when occupant X, holding seat A, books an existing empty seat B # A,
\* then A is empty, B holds X, every other seat is unchanged, and one
\* broadcast is made, each push of which shows A empty and B held by X.
ReSeating ==
  [][(handled' = "bookSeat" /\ booking'.parses /\ booking'.name # NULL) =>
       LET X == booking'.name
           B == booking'.seatNumber
       IN  \A A \in OccupiedSeats(sql) :
             (sql.seats[A] = X /\ A # B /\ HasSeat(sql, B) /\ sql.seats[B] = NULL) =>
               /\ Occupant(sql', A) = NULL
               /\ Occupant(sql', B) = X
               /\ SeatIds(sql') = SeatIds(sql)
               /\ \A s \in SeatIds(sql) \ {A, B} : sql'.seats[s] = sql.seats[s]
               /\ calls' = 1
               /\ \A w \in SocketIds : \A k \in 1..Len(pushed'[w]) :
                    LET snapshot == pushed'[w][k].json
                    IN  /\ \E i \in 1..Len(snapshot) :
                             snapshot[i] = [seatNumber |-> A, occupant |-> NULL]
                        /\ \E i \in 1..Len(snapshot) :
                             snapshot[i] = [seatNumber |-> B, occupant |-> X]]_vars

\* Alice moved from 1A to 1B while Bob sits in 10F, and an open socket was
\* pushed the snapshot.
ReSeatingWitness ==
  /\ handled = "bookSeat"
  /\ booking = [parses |-> TRUE, seatNumber |-> "1B", name |-> "Alice"]
  /\ response = Booked("1B")
  /\ vacated = {"1A"}
  /\ Occupant(sql, "10F") = "Bob"
  /\ \E w \in OpenSockets : Len(pushed[w]) = 1

\* C4: a booking that returns success has pushed exactly one snapshot to
\* every open socket and none to any other, all the pushes being the same
\* payload.
FanOut ==
  (handled = "bookSeat" /\ response.status = 200) =>
    /\ \A w \in SocketIds : Len(pushed[w]) = IF w \in OpenSockets THEN 1 ELSE 0
    /\ \A v, w \in OpenSockets : pushed[v] = pushed[w]
    /\ \A w \in OpenSockets : pushed[w][1] = GetSeats(sql)

\* A successful booking with two open sockets, both pushed.
FanOutWitness ==
  /\ handled = "bookSeat"
  /\ response.status = 200
  /\ Cardinality(OpenSockets) = 2
  /\ \A w \in OpenSockets : Len(pushed[w]) = 1

\* C5: a broadcast in which a delivery fails still delivers the snapshot to
\* every open socket, and the booking still returns success.
BestEffortDelivery ==
  (handled = "bookSeat" /\ calls = 1) =>
    /\ response.status = 200
    /\ \A w \in OpenSockets : Len(pushed[w]) = 1

\* C6: the constructor run again on existing storage returns normally and
\* leaves the schema and every row of the seat table as they were.
InitializeIdempotent ==
  [][handled' = "constructor" => (response' = Constructed /\ sql' = sql)]_vars

\* The object was constructed again after bookings had been made.
InitializeIdempotentWitness ==
  /\ handled = "constructor"
  /\ response = Constructed
  /\ Cardinality(OccupiedSeats(sql)) = 2

\* C7: a booking of a seat whose occupant is non-empty is answered 400
\* "Seat not available", whoever asks, changes no seat and broadcasts nothing.
OccupiedRejected ==
  [][(handled' = "bookSeat" /\ booking'.parses /\ Occupant(sql, booking'.seatNumber) # NULL) =>
       /\ response' = SeatAlreadyOccupied
       /\ response'.status = 400
       /\ sql' = sql
       /\ calls' = 0
       /\ pushed' = NoPush]_vars

\* The holder of a seat asked for that seat again and was rejected.
OccupiedRejectedWitness ==
  /\ handled = "bookSeat"
  /\ booking.parses
  /\ booking.name # NULL
  /\ Occupant(sql, booking.seatNumber) = booking.name
  /\ response = SeatAlreadyOccupied

\* C8 as stated: a booking of a seatId that is not in the seat table is
\* answered 400 with a reason distinct from that of an occupied seat, changes
\* no seat and broadcasts nothing.
UnknownSeatDistinctReason ==
  [][(handled' = "bookSeat" /\ booking'.parses /\ ~HasSeat(sql, booking'.seatNumber)) =>
       /\ response' = SeatNotFound
       /\ response'.status = 400
       /\ response' # SeatAlreadyOccupied
       /\ sql' = sql
       /\ calls' = 0
       /\ pushed' = NoPush]_vars

\* C8 amended: a booking of a seatId that is not in the seat table is
\* answered 400 "Seat not available", the response of an occupied seat; it
\* creates no seat, changes no occupant and broadcasts nothing.
UnknownSeatRejected ==
  [][(handled' = "bookSeat" /\ booking'.parses /\ ~HasSeat(sql, booking'.seatNumber)) =>
       /\ response' = SeatNotFound
       /\ response'.status = 400
       /\ response' = SeatAlreadyOccupied
       /\ sql' = sql
       /\ calls' = 0
       /\ pushed' = NoPush]_vars

\* Alice, holding a seat, asked for 9Z, was rejected and still holds a seat.
UnknownSeatRejectedWitness ==
  /\ handled = "bookSeat"
  /\ booking = [parses |-> TRUE, seatNumber |-> "9Z", name |-> "Alice"]
  /\ response = SeatNotFound
  /\ "Alice" \in Occupants(sql)
  /\ ~HasSeat(sql, "9Z")

\* C9: a booking that returns success leaves the seat holding exactly the
\* requested, non-empty occupant, and a booking of an existing empty seat
\* always returns 200 with a confirmation naming the seat.
BookingAssigns ==
  [][(handled' = "bookSeat" /\ booking'.parses) =>
       /\ response'.status = 200 =>
            /\ booking'.name # NULL
            /\ Occupant(sql', booking'.seatNumber) = booking'.name
       /\ (HasSeat(sql, booking'.seatNumber) /\ Occupant(sql, booking'.seatNumber) = NULL) =>
            response' = Booked(booking'.seatNumber)]_vars

\* C10: a booking whose body lacks seatNumber or name is answered 400 and
\* changes no seat.
MalformedRejected ==
  [][(handled' = "bookSeat" /\ booking'.parses
        /\ (booking'.seatNumber = NULL \/ booking'.name = NULL)) =>
       /\ response'.status = 400
       /\ sql' = sql]_vars

\* C11: a subscription adds the socket to getWebSockets(), changes no seat
\* and sends nothing; a socket is pushed a payload only by a booking that
\* returns success, and a booking that returns success pushes its snapshot to
\* every socket that is open then.
SubscribeSilent ==
  [][/\ (handled' = "fetch" /\ response' = Switching) =>
          /\ \E ws \in SocketIds : ws \notin OpenSockets /\ sockets' = Append(sockets, ws)
          /\ sql' = sql
          /\ calls' = 0
          /\ pushed' = NoPush
     /\ \A w \in SocketIds :
          pushed'[w] # <<>> => (handled' = "bookSeat" /\ response'.status = 200)
     /\ (handled' = "bookSeat" /\ response'.status = 200) =>
          \A w \in SocketIds : wsState'[w] = "open" => Len(pushed'[w]) = 1]_vars

SeatsReadMatchesPush ==
  [][\A req \in Requests :
       (IsGetSeats(req) /\ Fetch(req)) =>
         /\ response'.status = 200
         /\ response'.body = GetSeats(sql)
         /\ sql' = sql
         /\ calls' = 0
         /\ pushed' = NoPush]_vars

\* The seat identifiers of the loops of initializeSeats.
Layout == {SeatNumber(row, col) : row \in 1..NumRows, col \in 0..(NumCols - 1)}

\* C14: in every reachable state the seat table holds exactly the 60 seats of
\* the 10 x 6 layout, one row per seat identifier.
SeatLayoutFixed ==
  /\ SeatIds(sql) = Layout
  /\ Cardinality(SeatIds(sql)) = 60
  /\ Len(sql.rowids) = 60
  /\ {sql.rowids[i] : i \in 1..Len(sql.rowids)} = Layout

\* A passenger moved from one seat to another and the layout is intact.
SeatLayoutFixedWitness ==
  /\ handled = "bookSeat"
  /\ vacated # {}
  /\ response.status = 200
  /\ SeatIds(sql) = Layout

\* C16: a request that is not GET /seats, not POST /book-seat and not an
\* upgrade is answered 404 and changes no seat, no socket and pushes nothing.
OtherNotFound ==
  [][\A req \in Requests :
       (IsOther(req) /\ Fetch(req)) =>
         /\ response'.status = 404
         /\ response'.body = "Not found"
         /\ sql' = sql
         /\ sockets' = sockets
         /\ wsState' = wsState
         /\ calls' = 0
         /\ pushed' = NoPush]_vars

\* A request was answered 404 while a seat was held and a socket was open.
OtherNotFoundWitness ==
  /\ handled = "fetch"
  /\ response.status = 404
  /\ OccupiedSeats(sql) # {}
  /\ OpenSockets # {}

\* C18: only the step of a booking, from its lookup to its broadcast, writes
\* a seat or pushes a payload; every payload it pushes is the table as that
\* booking's write left it, with the booked seat held by the booking's
\* occupant; so each socket is pushed the snapshots one per committing step,
\* in the order of the commits.
BookingAtomic ==
  [][/\ handled' # "bookSeat" => (sql' = sql /\ pushed' = NoPush /\ calls' = 0)
     /\ handled' = "bookSeat" =>
          /\ sql' # sql => calls' = 1
          /\ calls' = 1 =>
               /\ booking'.parses
               /\ Occupant(sql, booking'.seatNumber) = NULL
               /\ Occupant(sql', booking'.seatNumber) = booking'.name
               /\ sql' = SetOccupant(ClearOccupant(sql, booking'.name),
                                     booking'.name, booking'.seatNumber)
          /\ \A w \in SocketIds :
               /\ Len(pushed'[w]) <= 1
               /\ \A k \in 1..Len(pushed'[w]) : pushed'[w][k] = GetSeats(sql')]_vars

\* Bob's booking, made while another booking was suspended, pushed a snapshot
\* that shows his seat and the seat Alice had booked before.
BookingAtomicWitness ==
  /\ handled = "bookSeat"
  /\ booking.name = "Bob"
  /\ response.status = 200
  /\ pending >= 1
  /\ "Alice" \in Occupants(sql)
  /\ \E w \in OpenSockets : pushed[w] = <<GetSeats(sql)>>

\* C19: a step changes the seat table only if it is a booking that returns
\* success.
WritesOnlyOnSuccess ==
  [][sql' # sql => (handled' = "bookSeat" /\ response'.status = 200)]_vars

PartitionOf(objs, lks, G) ==
  [object |-> objs[IdFromName(G)],
   conns  |-> {<<w, lks[w].state>> : w \in {v \in SocketIds : lks[v].flight = G}}]

\* C15: a step made for flight F (a booking, a read, a subscription, any
\* other request, or the close of one of F's connections) leaves the object,
\* the seat table and the connections of every other flight G as they were
\* and pushes nothing to a socket of G, whatever is suspended in F and G.
PartitionsIndependent ==
  [][\A G \in FlightIds \ {routed'.flightId} :
       /\ PartitionOf(objects', links', G) = PartitionOf(objects, links, G)
       /\ \A w \in SocketsOf(objects[IdFromName(G)]) : routed'.pushed[w] = <<>>
       /\ \A w \in SocketIds : links[w].flight = G => routed'.pushed[w] = <<>>]_vars

\* Alice holds 1A on F and 1B on G; her booking on F, made while a booking of
\* G was suspended, was pushed to F's socket and not to G's.
PartitionsIndependentWitness ==
  /\ routed.step = "bookSeat"
  /\ routed.flightId = "F"
  /\ routed.response = Booked("1A")
  /\ Occupant(objects[IdFromName("F")].sql, "1B") = NULL
  /\ Occupant(objects[IdFromName("G")].sql, "1B") = "Alice"
  /\ objects[IdFromName("G")].pending > 0
  /\ \E w \in SocketIds : links[w] = [state |-> "open", flight |-> "F"] /\ Len(routed.pushed[w]) = 1
  /\ \E w \in SocketIds : links[w] = [state |-> "open", flight |-> "G"] /\ routed.pushed[w] = <<>>

\* C17: a request without a flight identifier (the parameter absent or empty)
\* is answered 404 "Flight ID not found", is forwarded nowhere and creates or
\* changes no object; a request with a flight identifier is forwarded as it
\* was received to the object whose id is idFromName of that identifier, which
\* is live afterwards, and no other object is created or changed.
WorkerRoutes ==
  [][routed'.step = "fetch" =>
       IF routed'.flightId \in {NULL, ""}
         THEN /\ routed'.response.status = 404
              /\ routed'.response.body = "Flight ID not found"
              /\ routed'.target = NULL
              /\ routed'.forwarded = NoRequest
              /\ objects' = objects
              /\ links' = links
         ELSE /\ routed'.forwarded = routed'.request
              /\ routed'.forwarded \in WorkerRequests
              /\ routed'.target = IdFromName(routed'.flightId)
              /\ objects'[routed'.target].live
              /\ \A id \in ObjectIds \ {routed'.target} : objects'[id] = objects[id]
              /\ \A G \in FlightIds \ {routed'.flightId} : routed'.target # IdFromName(G)
              /\ routed'.response # FlightNotFound]_vars

\* A request with an empty flightId was answered 404 while F held a booking
\* and G had never been reached: no object was created for it.
WorkerRoutesWitness ==
  /\ routed.step = "fetch"
  /\ routed.flightId = ""
  /\ routed.response = FlightNotFound
  /\ Occupant(objects[IdFromName("F")].sql, "1A") = "Alice"
  /\ ~objects[IdFromName("G")].live
  /\ \A id \in ObjectIds \ {IdFromName("F")} : objects[id] = NoObject

====
